---- MODULE Spec2Model ----
(***************************************************************************)
(* Model of src/algorithms/DEAPlotting.py: the two RGB compositors         *)
(* three_band_image and three_band_image_subplots.                         *)
(*                                                                         *)
(* The file mixes tabs and spaces; it is read with the tab rule under      *)
(* which it compiles (a tab advances to the next multiple of 8), so lines  *)
(* 122-125 are inside the panel loop, after line 121.                      *)
(*                                                                         *)
(* Numbers.  A pixel value is NaN or a rational <<n, d>> in lowest terms,  *)
(* d > 0.  Dataset values are integers of the int16 range (surface         *)
(* reflectance with the no-data value -999), which float32 holds exactly,  *)
(* so the store into the float32 composite keeps them; the quotient by     *)
(* 5000 is kept exact.                                                     *)
(***************************************************************************)
EXTENDS Integers, Sequences, FiniteSets, TLC

VARIABLES
    ds,          \* the dataset handed to the calls
    figs,        \* pyplot's registry of figure numbers
    ncalls,      \* calls started so far
    pc,          \* "idle" | "render" | "loop"
    call,        \* the running (or last) call: function and arguments
    rawimg,      \* local rawimg of the running call
    img_toshow,  \* local img_toshow of the running call
    fig,         \* figure of the running call, 0 when none was allocated
    grid,        \* <<num_rows, num_cols>> asked of plt.subplots, <<>> when not asked
    axes,        \* the panels of the figure, in row-major order
    numbers,     \* local numbers of three_band_image_subplots
    outcome      \* how the last call ended

vars == <<ds, figs, ncalls, pc, call, rawimg, img_toshow, fig, grid, axes,
          numbers, outcome>>

----------------------------------------------------------------------------
(* Bounds *)

MaxT == 4

MaxCols == 3

MaxCalls == 2

----------------------------------------------------------------------------
(* Numbers *)

NaN == <<>>

RECURSIVE GCD(_, _)
GCD(a, b) == IF b = 0 THEN a ELSE GCD(b, a % b)

Abs(n) == IF n < 0 THEN -n ELSE n

\* n/d in lowest terms, d # 0
Rat(n, d) ==
    LET g == GCD(Abs(n), Abs(d))
        s == IF d < 0 THEN -1 ELSE 1
    IN  <<(s * n) \div g, (s * d) \div g>>

Num(n) == Rat(n, 1)

IsFinite(v) == v # NaN

Leq(a, b) == a[1] * b[2] <= b[1] * a[2]

\* a / k for an integer k # 0; NaN stays NaN
DivBy(a, k) == IF a = NaN THEN NaN ELSE Rat(a[1], a[2] * k)

\* least integer >= a
Ceil(a) == -((-a[1]) \div a[2])

\* greatest integer <= a
Floor(a) == a[1] \div a[2]

RAdd(a, b) == Rat(a[1] * b[2] + b[1] * a[2], a[2] * b[2])

RSub(a, b) == Rat(a[1] * b[2] - b[1] * a[2], a[2] * b[2])

RMul(a, b) == Rat(a[1] * b[1], a[2] * b[2])

\* a / b, b # 0
RDiv(a, b) == Rat(a[1] * b[2], a[2] * b[1])

Half == Rat(1, 2)

----------------------------------------------------------------------------
(* Program constants *)

NoData == -999

Reflectance == 5000

\* nbins of exposure.equalize_hist, left at its default by the calls
NBins == 256

PyNone == <<>>

----------------------------------------------------------------------------
(* The dataset: named bands over (time, y, x), with coordinates time, y, x *)

Vars == {"red", "green", "blue"}

\* (row, column) of an image with y = 1, x = 2
Pixels == {<<0, 0>>, <<0, 1>>}

Channels == 0 .. 2

Px(a, b) == (<<0, 0>> :> a) @@ (<<0, 1>> :> b)

\* time slices the datasets are built from
SliceA ==
    [red   |-> Px(Num(NoData), Num(5000)),
     green |-> Px(Num(0),      Num(NoData)),
     blue  |-> Px(Num(2500),   Num(10000))]

SliceB ==
    [red   |-> Px(Num(1250), Num(0)),
     green |-> Px(Num(5000), Num(3750)),
     blue  |-> Px(Num(625),  Num(5000))]

SliceC ==
    [red   |-> Px(Num(-625),   NaN),
     green |-> Px(Num(NoData), Num(NoData)),
     blue  |-> Px(Num(5000),   Num(NoData))]

\* one finite value only
SliceD ==
    [red   |-> Px(Num(1250), Num(NoData)),
     green |-> Px(Num(1250), Num(NoData)),
     blue  |-> Px(Num(1250), Num(NoData))]

SlicePool == <<SliceA, SliceB, SliceC, SliceD>>

\* T time slices taken from the pool in turn, starting at place first
SlicesFrom(first, T) ==
    [t \in 1 .. T |-> SlicePool[((first + t - 2) % Len(SlicePool)) + 1]]

TimeLabels ==
    <<"2018-01-01", "2018-01-17", "2018-02-02", "2018-02-18",
      "2018-03-06", "2018-03-22", "2018-04-07", "2018-04-23">>

XCoords == <<"1500000.0", "1500025.0">>

YCoords == <<"-4000000.0">>

\* a 3-D dataset with T time steps
Dataset3D(T, s) ==
    [ndim |-> 3, timeCoord |-> "dim", time |-> SubSeq(TimeLabels, 1, T),
     slices |-> s, x |-> XCoords, y |-> YCoords]

\* a 2-D dataset (no time axis); its time coordinate is a scalar or absent
Dataset2D(tc, s) ==
    [ndim |-> 2, timeCoord |-> tc,
     time |-> IF tc = "scalar" THEN <<TimeLabels[1]>> ELSE <<>>,
     slices |-> <<s>>, x |-> XCoords, y |-> YCoords]

Datasets ==
    {Dataset3D(T, SlicesFrom(first, T)) :
        T \in 0 .. MaxT, first \in 1 .. Len(SlicePool)}
    \cup {Dataset2D(tc, SlicePool[k]) :
            tc \in {"scalar", "absent"}, k \in 1 .. Len(SlicePool)}

\* Python indexing of a length-n axis by i
InRange(n, i) == -n <= i /\ i < n

PyIndex(n, i) == IF i < 0 THEN i + n ELSE i

----------------------------------------------------------------------------
(* Arguments of the calls *)

BandLists == {<<"red", "green", "blue">>, <<"blue", "green", "red">>}

\* the last step, the first two, and one past every axis
TimeArgs == {-1, 0, 1, MaxT}

Titles == {"My Plot"}

Projections == {"projected", "geographic", "utm"}

ColumnCounts == 1 .. MaxCols

\* plt.subplots asked for a grid of 0 rows: the library either refuses
\* (ValueError) or hands back an empty array of axes, by its version
ZeroRowGrids == {"ValueError", "empty"}

----------------------------------------------------------------------------
(* The composite image *)

\* rawimg, img_toshow while the name is not bound, and an axes without image
BlankImg == [p \in Pixels |-> [i \in Channels |-> NaN]]

\* lines 47, 52, 118: np.zeros((y,x,3), dtype = np.float32)
ZerosImg == [p \in Pixels |-> [i \in Channels |-> Num(0)]]

\* lines 47-49, 52-54, 118-120: a new zero array, then band i of the slice
\* copied into channel i
Stack(slice, bands) ==
    [p \in Pixels |-> [i \in Channels |-> slice[bands[i + 1]][p]]]

\* a pixel is blanked in all channels when any channel holds the sentinel
MaskNoDataWholePixel(img) ==
    [p \in Pixels |-> [i \in Channels |->
        IF \E j \in Channels : img[p][j] = Num(NoData) THEN NaN ELSE img[p][i]]]

\* lines 55, 121: rawimg[rawimg == -999] = np.nan
MaskNoData(img) ==
    [p \in Pixels |-> [i \in Channels |->
        IF img[p][i] = Num(NoData) THEN NaN ELSE img[p][i]]]

FiniteCells(img) == {c \in Pixels \X Channels : IsFinite(img[c[1]][c[2]])}

\* lines 57, 123: exposure.equalize_hist(rawimg, mask = np.isfinite(rawimg)).
\* The finite values are counted into NBins equal bins over [min, max]
\* (over [min - 1/2, max + 1/2] when all are equal; the maximum belongs to
\* the last bin); cdf is the running share of the counts; each value is
\* then read off the line through the points (bin centre, cdf), np.interp,
\* which is flat before the first centre and after the last.  Positions
\* are measured in bin widths from the lower end of the range.
EqualizeHistOf(img) ==
    LET fin == FiniteCells(img)
        val(c) == img[c[1]][c[2]]
        least == val(CHOOSE c \in fin : \A d \in fin : Leq(val(c), val(d)))
        most == val(CHOOSE c \in fin : \A d \in fin : Leq(val(d), val(c)))
        lo == IF least = most THEN RSub(least, Half) ELSE least
        hi == IF least = most THEN RAdd(most, Half) ELSE most
        perUnit == RDiv(Num(NBins), RSub(hi, lo))
        pos == [c \in fin |-> RMul(RSub(val(c), lo), perUnit)]
        bin == [c \in fin |->
                   IF Leq(Num(NBins), pos[c]) THEN NBins - 1 ELSE Floor(pos[c])]
        cdf(j) == Rat(Cardinality({c \in fin : bin[c] <= j}), Cardinality(fin))
        interp(c) ==
            LET x == RSub(pos[c], Half)
                j == Floor(x)
            IN  IF Leq(x, Num(0)) THEN cdf(0)
                ELSE IF Leq(Num(NBins - 1), x) THEN cdf(NBins - 1)
                ELSE RAdd(cdf(j),
                          RMul(RSub(x, Num(j)), RSub(cdf(j + 1), cdf(j))))
    IN  [p \in Pixels |-> [i \in Channels |->
            IF IsFinite(img[p][i]) THEN interp(<<p, i>>) ELSE NaN]]

\* the composites the datasets give, and their equalised images, worked
\* out once
ComposableImages ==
    {MaskNoData(Stack(SlicePool[k], bands)) :
        k \in 1 .. Len(SlicePool), bands \in BandLists}

EqualizedTable == [img \in ComposableImages |-> EqualizeHistOf(img)]

EqualizeHist(img) ==
    IF img \in ComposableImages THEN EqualizedTable[img] ELSE EqualizeHistOf(img)

\* the image divided by half the reflectance constant
ScaleByHalf(img) ==
    [p \in Pixels |-> [i \in Channels |-> DivBy(img[p][i], Reflectance \div 2)]]

\* lines 59, 125: rawimg / 5000
Scale(img) ==
    [p \in Pixels |-> [i \in Channels |-> DivBy(img[p][i], Reflectance)]]

\* the division applied after the equalisation as well
ImgToShowBoth(img, contrast_enhance) ==
    IF contrast_enhance = TRUE THEN Scale(EqualizeHist(img)) ELSE Scale(img)

\* lines 56-59, 122-125
ImgToShow(img, contrast_enhance) ==
    IF contrast_enhance = TRUE THEN EqualizeHist(img) ELSE Scale(img)

\* the sentinel written back through a view of the dataset's own arrays
DatasetMaskedInPlace(d, bands, idx) ==
    [d EXCEPT !.slices[idx + 1] =
        [v \in Vars |->
            IF \E i \in Channels : bands[i + 1] = v
            THEN [p \in Pixels |-> IF @[v][p] = Num(NoData) THEN NaN ELSE @[v][p]]
            ELSE @[v]]]

\* lines 47-59, 118-125: every store goes to rawimg, the array np.zeros made,
\* and img_toshow is a new array; the dataset's arrays are only read
DatasetAfter(d, bands, idx) == d

----------------------------------------------------------------------------
(* Figures and axes *)

Max(S) == CHOOSE m \in S : \A n \in S : n <= m

\* the figure already current is drawn on again
CurrentFigure(registry) == IF registry = {} THEN 1 ELSE Max(registry)

\* lines 60, 111: plt.figure / plt.subplots open a figure under the next
\* free number
NewFigure(registry) == IF registry = {} THEN 1 ELSE Max(registry) + 1

\* an axes nothing was drawn on
BlankPanel ==
    [drawn |-> FALSE, image |-> BlankImg, title |-> "", xlabel |-> "",
     ylabel |-> "", xticklabels |-> <<>>, yticklabels |-> <<>>,
     deleted |-> FALSE]

\* the test made for "projected" instead of "geographic"
AxisLabelsByProjected(projection) ==
    IF projection = "projected"
    THEN <<"Eastings", "Northings">>
    ELSE <<"Longitude", "Latitude">>

\* lines 69-74, 130-135: <<xlabel, ylabel>>
AxisLabels(projection) ==
    IF projection = "geographic"
    THEN <<"Longitude", "Latitude">>
    ELSE <<"Eastings", "Northings">>

\* str(ds.time[time].values): defined when time is an axis and the index is on it
HasTimeLabel(d, time) == d.timeCoord = "dim" /\ InRange(Len(d.time), time)

\* the caller's title always
PlotTitleGiven(d, time, title) == title

\* lines 63-66: the time label, or the caller's title when reading it fails
\* (no time coordinate: AttributeError; a scalar one: IndexError)
PlotTitle(d, time, title) ==
    IF HasTimeLabel(d, time)
    THEN d.time[PyIndex(Len(d.time), time) + 1]
    ELSE title

\* an axes with the image, title, tick labels and axis labels set
Panel(d, img, title, projection) ==
    [drawn |-> TRUE, image |-> img, title |-> title,
     xlabel |-> AxisLabels(projection)[1], ylabel |-> AxisLabels(projection)[2],
     xticklabels |-> d.x, yticklabels |-> d.y, deleted |-> FALSE]

\* true division rounded up
NumRowsCeil(timesteps, num_cols) == Ceil(Rat(timesteps, num_cols))

\* line 110: int(np.ceil(timesteps//num_cols))
NumRows(timesteps, num_cols) == Ceil(Num(timesteps \div num_cols))

\* line 109: ds.time.size (the coordinate exists)
TimeSteps(d) == IF d.timeCoord = "dim" THEN Len(d.time) ELSE 1

Running == [kind |-> "running", exc |-> "", value |-> PyNone]

Returned(v) == [kind |-> "return", exc |-> "", value |-> v]

Raised(e) == [kind |-> "raise", exc |-> e, value |-> PyNone]

CallOf(fn, bands, time, ce, title, projection, num_cols) ==
    [fn |-> fn, bands |-> bands, time |-> time, contrast_enhance |-> ce,
     title |-> title, projection |-> projection, num_cols |-> num_cols]

----------------------------------------------------------------------------
(* The state after construction: a dataset, no figure, no call made *)

Init ==
    /\ ds \in Datasets
    /\ figs = {}
    /\ ncalls = 0
    /\ pc = "idle"
    /\ call = CallOf("", <<>>, 0, FALSE, "", "", 0)
    /\ rawimg = BlankImg
    /\ img_toshow = BlankImg
    /\ fig = 0
    /\ grid = <<>>
    /\ axes = <<>>
    /\ numbers = 0
    /\ outcome = [kind |-> "none", exc |-> "", value |-> PyNone]

----------------------------------------------------------------------------
(* three_band_image *)

\* lines 45-59: the composite of the time slice and the image to show.
\* A 3-D dataset takes the try branch, where a time index off the axis
\* raises IndexError to the caller; a 2-D one raises ValueError on the
\* unpacking of line 46 and takes the except branch, which ignores time.
ThreeBandImageCompose(bands, time, ce, title, projection) ==
    /\ pc = "idle"
    /\ ncalls < MaxCalls
    /\ ncalls' = ncalls + 1
    /\ call' = CallOf("three_band_image", bands, time, ce, title, projection, 0)
    /\ fig' = 0
    /\ grid' = <<>>
    /\ axes' = <<>>
    /\ numbers' = 0
    /\ figs' = figs
    /\ IF ds.ndim = 3 /\ ~InRange(Len(ds.slices), time)
       THEN /\ rawimg' = ZerosImg
            /\ img_toshow' = BlankImg
            /\ ds' = ds
            /\ pc' = "idle"
            /\ outcome' = Raised("IndexError")
       ELSE LET idx == IF ds.ndim = 3 THEN PyIndex(Len(ds.slices), time) ELSE 0
                raw == MaskNoData(Stack(ds.slices[idx + 1], bands))
            IN  /\ rawimg' = raw
                /\ img_toshow' = ImgToShow(raw, ce)
                /\ ds' = DatasetAfter(ds, bands, idx)
                /\ pc' = "render"
                /\ outcome' = Running

\* lines 60-75: a new figure, the image, the title, the tick and axis
\* labels; returns (plt, fig)
ThreeBandImageRender ==
    /\ pc = "render"
    /\ LET f == NewFigure(figs)
       IN  /\ figs' = figs \cup {f}
           /\ fig' = f
           /\ axes' = <<Panel(ds, img_toshow,
                              PlotTitle(ds, call.time, call.title),
                              call.projection)>>
           /\ outcome' = Returned(<<"plt", f>>)
    /\ pc' = "idle"
    /\ UNCHANGED <<ds, ncalls, call, rawimg, img_toshow, grid, numbers>>

----------------------------------------------------------------------------
(* three_band_image_subplots *)

\* lines 109-114, and the evaluation of axes.flat on line 116.
\* plt.subplots opens the figure, then builds the grid: a grid of 0 rows is
\* refused or comes back empty (zero_rows); a grid of one cell comes back as
\* the Axes itself (squeeze), which has no attribute flat.
SubplotsBegin(bands, num_cols, ce, projection, zero_rows) ==
    /\ pc = "idle"
    /\ ncalls < MaxCalls
    /\ ncalls' = ncalls + 1
    /\ call' = CallOf("three_band_image_subplots", bands, 0, ce, "",
                      projection, num_cols)
    /\ rawimg' = BlankImg
    /\ img_toshow' = BlankImg
    /\ numbers' = 0
    /\ ds' = ds
    /\ IF ds.timeCoord = "absent"
       THEN /\ outcome' = Raised("AttributeError")
            /\ pc' = "idle"
            /\ fig' = 0
            /\ grid' = <<>>
            /\ axes' = <<>>
            /\ figs' = figs
       ELSE LET num_rows == NumRows(TimeSteps(ds), num_cols)
                cells == num_rows * num_cols
                f == NewFigure(figs)
            IN  /\ figs' = figs \cup {f}
                /\ fig' = f
                /\ grid' = <<num_rows, num_cols>>
                /\ IF num_rows = 0 /\ zero_rows = "ValueError"
                   THEN /\ axes' = <<>>
                        /\ outcome' = Raised("ValueError")
                        /\ pc' = "idle"
                   ELSE /\ axes' = [k \in 1 .. cells |-> BlankPanel]
                        /\ IF cells = 1
                           THEN /\ outcome' = Raised("AttributeError")
                                /\ pc' = "idle"
                           ELSE /\ outcome' = Running
                                /\ pc' = "loop"

\* lines 116-141, one pass of the loop: the axes in row-major place numbers
\* gets the composite of time step numbers.  An index off the time axis
\* raises IndexError on line 120, which the handler of line 137 answers by
\* deleting that axes; the function then ends, returning nothing.
SubplotsPanel ==
    /\ pc = "loop"
    /\ numbers < Len(axes)
    /\ UNCHANGED <<figs, ncalls, call, fig, grid>>
    /\ IF ds.ndim # 3
       THEN /\ outcome' = Raised("ValueError")
            /\ pc' = "idle"
            /\ UNCHANGED <<ds, rawimg, img_toshow, axes, numbers>>
       ELSE IF ~InRange(Len(ds.slices), numbers)
       THEN /\ axes' = [axes EXCEPT ![numbers + 1].deleted = TRUE]
            /\ rawimg' = ZerosImg
            /\ outcome' = Returned(PyNone)
            /\ pc' = "idle"
            /\ UNCHANGED <<ds, img_toshow, numbers>>
       ELSE LET idx == PyIndex(Len(ds.slices), numbers)
                raw == MaskNoData(Stack(ds.slices[idx + 1], call.bands))
                img == ImgToShow(raw, call.contrast_enhance)
            IN  /\ rawimg' = raw
                /\ img_toshow' = img
                /\ ds' = DatasetAfter(ds, call.bands, idx)
                /\ axes' = [axes EXCEPT ![numbers + 1] =
                                Panel(ds, img, ds.time[numbers + 1],
                                      call.projection)]
                /\ numbers' = numbers + 1
                /\ pc' = "loop"
                /\ outcome' = outcome

\* the loop of line 116 is exhausted: the function ends without a return
\* statement
SubplotsEnd ==
    /\ pc = "loop"
    /\ numbers = Len(axes)
    /\ outcome' = Returned(PyNone)
    /\ pc' = "idle"
    /\ UNCHANGED <<ds, figs, ncalls, call, rawimg, img_toshow, fig, grid,
                   axes, numbers>>

----------------------------------------------------------------------------

Next ==
    \/ \E bands \in BandLists, time \in TimeArgs, ce \in BOOLEAN,
          title \in Titles, projection \in Projections :
            ThreeBandImageCompose(bands, time, ce, title, projection)
    \/ ThreeBandImageRender
    \/ \E bands \in BandLists, num_cols \in ColumnCounts, ce \in BOOLEAN,
          projection \in Projections, zero_rows \in ZeroRowGrids :
            SubplotsBegin(bands, num_cols, ce, projection, zero_rows)
    \/ SubplotsPanel
    \/ SubplotsEnd

Spec == Init /\ [][Next]_vars

----------------------------------------------------------------------------
(* What the claims speak of *)

TBI == "three_band_image"

SUB == "three_band_image_subplots"

\* the last call has ended
Ended(fn) == call.fn = fn /\ pc = "idle"

\* rawimg and img_toshow hold the composite of a time slice
HasComposite ==
    \/ call.fn = TBI /\ outcome.kind \in {"running", "return"}
    \/ /\ call.fn = SUB
       /\ numbers >= 1
       /\ \A k \in 1 .. Len(axes) : ~axes[k].deleted

\* the place in ds.slices of the slice last composed
ComposedSlice ==
    IF call.fn = SUB THEN numbers
    ELSE IF ds.ndim = 3 THEN PyIndex(Len(ds.slices), call.time) + 1
    ELSE 1

\* the dataset's value behind channel i of pixel p of the composite
Source(p, i) == ds.slices[ComposedSlice][call.bands[i + 1]][p]

InUnit(v) == Leq(Num(0), v) /\ Leq(v, Num(1))

Drawn == {k \in 1 .. Len(axes) : axes[k].drawn}

----------------------------------------------------------------------------
(* C1, on the calls that return: when three_band_image_subplots has       *)
(* returned on a dataset with T >= 1 time steps, every time index 0..T-1   *)
(* is shown in exactly one panel, and panel k (row-major) shows time step  *)
(* k.                                                                      *)
C1_EveryTimeStepInOnePanel ==
    (Ended(SUB) /\ outcome.kind = "return" /\ ds.timeCoord = "dim"
        /\ Len(ds.time) >= 1 /\ grid[1] >= 1) =>
        /\ \A t \in 1 .. Len(ds.time) :
              Cardinality({k \in Drawn : axes[k].title = ds.time[t]}) = 1
        /\ \A k \in Drawn :
              /\ k <= Len(ds.time)
              /\ axes[k].title = ds.time[k]
              /\ axes[k].image =
                    ImgToShow(MaskNoData(Stack(ds.slices[k], call.bands)),
                              call.contrast_enhance)

(* C2, on the calls that draw a grid: when three_band_image_subplots has   *)
(* ended on a dataset whose T >= 1 time steps do not fill rows of num_cols *)
(* columns (so that a grid holding them all has more cells than time       *)
(* steps), it returned, and the first panel past the time steps, the one   *)
(* of index T, exists and was deleted.                                     *)
C2_ExcessSubplotDeleted ==
    (Ended(SUB) /\ ds.timeCoord = "dim" /\ Len(ds.time) >= 1
        /\ Len(ds.time) % call.num_cols # 0 /\ grid[1] >= 1) =>
        /\ outcome.kind = "return"
        /\ Len(axes) > Len(ds.time)
        /\ axes[Len(ds.time) + 1].deleted

(* C3: the number of rows asked of plt.subplots is floor(time_steps /      *)
(* num_cols): rows * num_cols <= time_steps < (rows + 1) * num_cols.       *)
C3_RowsAreFloor ==
    (call.fn = SUB /\ grid # <<>>) =>
        /\ grid[2] = call.num_cols
        /\ grid[1] * grid[2] <= TimeSteps(ds)
        /\ TimeSteps(ds) < (grid[1] + 1) * grid[2]

\* a grid was asked for time steps that do not fill its rows
C3_Witness ==
    /\ call.fn = SUB
    /\ grid # <<>>
    /\ grid[1] >= 1
    /\ TimeSteps(ds) % grid[2] # 0

(* C4: in the composite, channel i of a pixel is NaN when bands[i] of the  *)
(* dataset holds -999 there and holds the dataset's value otherwise,       *)
(* whatever the other two bands hold.                                      *)
C4_NoDataPerChannel ==
    HasComposite =>
        \A p \in Pixels, i \in Channels :
            rawimg[p][i] =
                IF Source(p, i) = Num(NoData) THEN NaN ELSE Source(p, i)

\* a pixel with -999 in one band and finite values in another
C4_Witness ==
    /\ HasComposite
    /\ \E p \in Pixels, i, j \in Channels :
          /\ Source(p, i) = Num(NoData)
          /\ rawimg[p][i] = NaN
          /\ Source(p, j) # Num(NoData)
          /\ IsFinite(rawimg[p][j])

(* C5 as stated: without enhancement every finite value of the displayed   *)
(* image lies in [0, 1].                                                   *)
C5_DisplayedWithinUnitInterval ==
    (HasComposite /\ call.contrast_enhance = FALSE) =>
        \A p \in Pixels, i \in Channels :
            IsFinite(img_toshow[p][i]) => InUnit(img_toshow[p][i])

(* C5 amended: without enhancement a finite displayed value lies in [0, 1] *)
(* exactly when the dataset's value lies in [0, 5000].                     *)
C5_UnitIntervalIffUpToReflectance ==
    (HasComposite /\ call.contrast_enhance = FALSE) =>
        \A p \in Pixels, i \in Channels :
            IsFinite(img_toshow[p][i]) =>
                (InUnit(img_toshow[p][i]) <=>
                    (Leq(Num(0), Source(p, i)) /\ Leq(Source(p, i), Num(5000))))

\* an image shown without enhancement with values at 1, above 1 and below 0
C5_Witness ==
    /\ HasComposite
    /\ call.contrast_enhance = FALSE
    /\ \E p \in Pixels, i \in Channels :
          Source(p, i) = Num(5000) /\ img_toshow[p][i] = Num(1)
    /\ \E p \in Pixels, i \in Channels :
          IsFinite(img_toshow[p][i]) /\ ~Leq(img_toshow[p][i], Num(1))

(* C6: without enhancement every finite displayed value is the dataset's   *)
(* value divided by 5000 (5000 shows as 1, 0 as 0) and the no-data cells   *)
(* stay NaN; with enhancement the image is the equalised one only, never   *)
(* divided as well: its finite values lie in (0, 1] and the largest of     *)
(* them is 1, or 1/2 when all finite values are equal.                     *)
C6_DividedBy5000OrEqualised ==
    HasComposite =>
        IF call.contrast_enhance = FALSE
        THEN \A p \in Pixels, i \in Channels :
                /\ IsFinite(img_toshow[p][i]) <=> IsFinite(rawimg[p][i])
                /\ IsFinite(img_toshow[p][i]) =>
                      /\ img_toshow[p][i][1] * Source(p, i)[2] * 5000
                            = Source(p, i)[1] * img_toshow[p][i][2]
                      /\ Source(p, i) = Num(5000) => img_toshow[p][i] = Num(1)
                      /\ Source(p, i) = Num(0) => img_toshow[p][i] = Num(0)
        ELSE /\ \A p \in Pixels, i \in Channels :
                  /\ IsFinite(img_toshow[p][i]) <=> IsFinite(rawimg[p][i])
                  /\ IsFinite(img_toshow[p][i]) =>
                        InUnit(img_toshow[p][i]) /\ img_toshow[p][i] # Num(0)
             /\ \A c \in FiniteCells(rawimg) :
                  (\A d \in FiniteCells(rawimg) :
                        Leq(rawimg[d[1]][d[2]], rawimg[c[1]][c[2]])) =>
                     img_toshow[c[1]][c[2]] =
                        IF \A d \in FiniteCells(rawimg) :
                              rawimg[d[1]][d[2]] = rawimg[c[1]][c[2]]
                        THEN Half
                        ELSE Num(1)

\* reflectances 5000 and 0 shown without enhancement as 1 and 0
C6_Witness ==
    /\ HasComposite
    /\ call.contrast_enhance = FALSE
    /\ \E p \in Pixels, i \in Channels :
          Source(p, i) = Num(5000) /\ img_toshow[p][i] = Num(1)
    /\ \E p \in Pixels, i \in Channels :
          Source(p, i) = Num(0) /\ img_toshow[p][i] = Num(0)

(* C7 as stated: the axis labels of every drawn panel are Eastings and     *)
(* Northings when projection is "projected" and Longitude and Latitude for *)
(* every other value.                                                      *)
C7_LabelsByProjected ==
    \A k \in Drawn :
        <<axes[k].xlabel, axes[k].ylabel>> =
            IF call.projection = "projected"
            THEN <<"Eastings", "Northings">>
            ELSE <<"Longitude", "Latitude">>

(* C7 amended: the axis labels of every drawn panel, in both compositors,  *)
(* are Longitude and Latitude when projection is "geographic" and Eastings *)
(* and Northings for every other value.                                    *)
C7_LabelsByGeographic ==
    \A k \in Drawn :
        /\ call.projection = "geographic" =>
              axes[k].xlabel = "Longitude" /\ axes[k].ylabel = "Latitude"
        /\ call.projection # "geographic" =>
              axes[k].xlabel = "Eastings" /\ axes[k].ylabel = "Northings"

\* a grid of panels drawn under a projection flag that is neither name
C7_Witness ==
    /\ call.fn = SUB
    /\ call.projection = "utm"
    /\ Cardinality(Drawn) >= 2
    /\ \A k \in Drawn : axes[k].xlabel = "Eastings"

(* C8: when three_band_image has returned, the title is the time label at  *)
(* the requested index if the dataset has a time axis and the caller's     *)
(* title otherwise; and on a dataset without a time axis the call never    *)
(* ends by raising.                                                        *)
C8_TitleFromTimeOrCaller ==
    /\ (Ended(TBI) /\ outcome.kind = "return") =>
          /\ Len(axes) = 1
          /\ ds.timeCoord = "dim" =>
                axes[1].title = ds.time[PyIndex(Len(ds.time), call.time) + 1]
          /\ ds.timeCoord # "dim" => axes[1].title = call.title
    /\ (call.fn = TBI /\ ds.timeCoord # "dim") => outcome.kind # "raise"

\* a dataset without a time coordinate drawn under the caller's title
C8_Witness ==
    /\ Ended(TBI)
    /\ outcome.kind = "return"
    /\ ds.timeCoord = "absent"
    /\ axes[1].title = "My Plot"

(* C9 as stated: every call that returns hands the caller a figure handle. *)
C9_EveryCallReturnsFigure ==
    outcome.kind = "return" =>
        /\ outcome.value # PyNone
        /\ outcome.value[2] = fig

(* C9 amended: three_band_image returns (plt, fig) and                     *)
(* three_band_image_subplots returns nothing; in both, the figure of the   *)
(* call is a new one, in no earlier state of the figure registry.          *)
C9_FreshFigurePerCall ==
    /\ [](outcome.kind = "return" =>
            /\ fig \in figs
            /\ call.fn = TBI => outcome.value = <<"plt", fig>>
            /\ call.fn = SUB => outcome.value = PyNone)
    /\ [][fig' # fig /\ fig' # 0 => fig' \notin figs /\ fig' \in figs']_vars

\* a second call has returned a second figure
C9_Witness ==
    /\ Ended(TBI)
    /\ outcome = Returned(<<"plt", 2>>)
    /\ figs = {1, 2}

(* C10: no step of either compositor changes the dataset.                  *)
C10_DatasetReadOnly == [][ds' = ds]_vars

\* the except branch has composed, with enhancement, a slice holding -999,
\* and the dataset still holds the -999
C10_Witness ==
    /\ Ended(TBI)
    /\ outcome.kind = "return"
    /\ ds.ndim = 2
    /\ call.contrast_enhance = TRUE
    /\ \E p \in Pixels, i \in Channels :
          Source(p, i) = Num(NoData) /\ rawimg[p][i] = NaN

====
